---- MODULE Spec2Model ----
(***************************************************************************)
(* CircuitDraw (main.py): the diagram object model (Module, Wire) and the  *)
(* Canvas interaction state machine, one action per Qt event handler.      *)
(***************************************************************************)
EXTENDS Integers, Sequences, FiniteSets, TLC

VARIABLES
    objects,         \* Canvas.objects: sequence of object records
    selected,        \* Canvas.selected: sequence of object ids
    last_mouse_pos,  \* Canvas.last_mouse_pos: a point, or None
    mode,            \* Canvas.mode
    active,          \* Canvas.active: an object id, or NoneId
    widgets,         \* PropertiesBox.widgets: set of <<field, value>>
    error,           \* exception raised by the last handler, "" when none
    created,         \* objects constructed so far (the next one's identity)
    ev,              \* the last event delivered
    uwire,           \* a stand-alone Wire (Wire unit harness)
    uop              \* the last Wire method called on it, with its outcome

vars == <<objects, selected, last_mouse_pos, mode, active, widgets, error,
          created, ev, uwire, uop>>

canvasVars == <<objects, selected, last_mouse_pos, mode, active, widgets,
                error, created, ev>>

unitVars == <<uwire, uop>>

----------------------------------------------------------------------------
\* Program constants

MIN_SIZE == 5

BOX_RADIUS == 10

NORMAL == "NORMAL"

DRAW_WIRE == "DRAW_WIRE"

DRAW_MODULE == "DRAW_MODULE"

\* Python's None for a point-valued attribute, for an object reference and
\* for a label
None == <<>>

NoneId == 0

NoLabel == "None"

----------------------------------------------------------------------------
\* Bounds of the model

\* Objects constructed in a run, the two of Canvas.__init__ included
\* (a drawing gesture cannot start beyond it)
MaxObjects == 3

\* Points a wire under construction may have (pointer-down is disabled beyond)
MaxPoints == 3

\* Drags keep every moved module position and wire point inside
\* MinCoord..MaxCoord
MinCoord == 100

MaxCoord == 350

\* Points of a stand-alone wire in the Wire unit harness
MaxUnitPoints == 3

\* Indices tried by remove_pt in the unit harness: -MaxIdx..MaxIdx
MaxIdx == 4

\* Pointer positions delivered by the windowing system
Positions == { <<250, 250>>, <<200, 350>> }

\* Points offered to add_point in the unit harness
UnitPoints == { <<100, 200>>, <<100, 350>>, <<200, 360>>, <<110, 340>> }

Keys == { "W", "M", "Backspace", "Escape" }

----------------------------------------------------------------------------
\* Helpers for Python lists and numbers

Abs(n) == IF n < 0 THEN -n ELSE n

Max(a, b) == IF a >= b THEN a ELSE b

Min(a, b) == IF a <= b THEN a ELSE b

Range(s) == { s[i] : i \in 1..Len(s) }

\* list.remove(x) on a list that holds x: the first occurrence goes
ListRemove(s, x) ==
    LET i == CHOOSE k \in 1..Len(s) :
                 s[k] = x /\ \A j \in 1..(k - 1) : s[j] # x
    IN  SubSeq(s, 1, i - 1) \o SubSeq(s, i + 1, Len(s))

\* del s[i] with a valid 1-based position
ListDel(s, i) == SubSeq(s, 1, i - 1) \o SubSeq(s, i + 1, Len(s))

----------------------------------------------------------------------------
\* BaseObject / Module / Wire

update_rect(o) ==
    [o EXCEPT !.rect = <<o.pos[1], o.pos[2], o.size[1], o.size[2]>>]

update_line(o) == [o EXCEPT !.line = o.points]

\* set_size without the clamp
BaseSetSize_NoClamp(o, size) == [o EXCEPT !.size = <<size[1], size[2]>>]

\* BaseObject.set_size: each dimension clamped from below
BaseSetSize(o, size) ==
    [o EXCEPT !.size = <<Max(size[1], MIN_SIZE), Max(size[2], MIN_SIZE)>>]

BaseSetPos(o, pos) == [o EXCEPT !.pos = pos]

BaseMove(o, dx, dy) == [o EXCEPT !.pos = <<o.pos[1] + dx, o.pos[2] + dy>>]

ModuleSetSize(o, size) == update_rect(BaseSetSize(o, size))

ModuleSetPos(o, pos) == update_rect(BaseSetPos(o, pos))

\* Module.move that leaves the cached rectangle as it was
ModuleMove_StaleRect(o, dx, dy) == BaseMove(o, dx, dy)

ModuleMove(o, dx, dy) == update_rect(BaseMove(o, dx, dy))

\* Module(): BaseObject defaults, then the cached rectangle
NewModule(id) ==
    update_rect([id |-> id, cls |-> "Module", pos |-> <<200, 200>>,
                 size |-> <<100, 100>>, label |-> NoLabel,
                 selected |-> FALSE, rect |-> <<0, 0, 0, 0>>])

\* Wire(points)
NewWire(id, points) ==
    update_line([id |-> id, cls |-> "Wire", pos |-> <<200, 200>>,
                 size |-> <<100, 100>>, label |-> NoLabel,
                 selected |-> FALSE, points |-> points, line |-> <<>>])

\* QRect(x, y, w, h).contains(px, py) on the cached rectangle
ModuleInBounds(o, pos) ==
    LET x1 == o.rect[1]
        y1 == o.rect[2]
        x2 == o.rect[1] + o.rect[3] - 1
        y2 == o.rect[2] + o.rect[4] - 1
        l == IF x2 < x1 - 1 THEN x2 ELSE x1
        r == IF x2 < x1 - 1 THEN x1 ELSE x2
        t == IF y2 < y1 - 1 THEN y2 ELSE y1
        b == IF y2 < y1 - 1 THEN y1 ELSE y2
    IN  /\ l <= pos[1] /\ pos[1] <= r
        /\ t <= pos[2] /\ pos[2] <= b

\* Wire.in_bounds: inside the box of some segment grown by BOX_RADIUS
WireInBounds(o, pos) ==
    \E i \in 2..Len(o.points) :
        LET p0 == o.points[i - 1]
            p1 == o.points[i]
        IN  /\ Min(p0[1], p1[1]) - BOX_RADIUS <= pos[1]
            /\ pos[1] <= Max(p0[1], p1[1]) + BOX_RADIUS
            /\ Min(p0[2], p1[2]) - BOX_RADIUS <= pos[2]
            /\ pos[2] <= Max(p0[2], p1[2]) + BOX_RADIUS

in_bounds(o, pos) ==
    IF o.cls = "Module" THEN ModuleInBounds(o, pos) ELSE WireInBounds(o, pos)

\* select that can set the flag but never clears it
select_SetOnly(o, sel) == [o EXCEPT !.selected = (o.selected \/ sel)]

select(o, sel) == [o EXCEPT !.selected = sel]

\* Wire.move that translates every point but the first
WireMove_SkipFirst(o, dx, dy) ==
    LET m == BaseMove(o, dx, dy)
    IN  update_line([m EXCEPT !.points =
            [i \in 1..Len(m.points) |->
                IF i = 1 THEN m.points[i]
                ELSE <<m.points[i][1] + dx, m.points[i][2] + dy>>]])

\* Wire.move: BaseObject.move, then every point, then the cached polyline
WireMove(o, dx, dy) ==
    LET m == BaseMove(o, dx, dy)
    IN  update_line([m EXCEPT !.points =
            [i \in 1..Len(m.points) |->
                <<m.points[i][1] + dx, m.points[i][2] + dy>>]])

move(o, dx, dy) ==
    IF o.cls = "Module" THEN ModuleMove(o, dx, dy) ELSE WireMove(o, dx, dy)

\* align that snaps only when y is the closer axis
align_NoSnapX(p, q) ==
    IF Abs(p[1] - q[1]) < Abs(p[2] - q[2]) THEN p ELSE <<p[1], q[2]>>

\* align that sends ties to the first form
align_TieFirst(p, q) ==
    IF Abs(p[1] - q[1]) <= Abs(p[2] - q[2])
    THEN <<q[1], p[2]>>
    ELSE <<p[1], q[2]>>

\* Wire.align: p aligned with q
align(p, q) ==
    IF Abs(p[1] - q[1]) < Abs(p[2] - q[2])
    THEN <<q[1], p[2]>>
    ELSE <<p[1], q[2]>>

\* Wire.add_point on a list of points
AddPoint(points, p) ==
    IF Len(points) = 0
    THEN Append(points, p)
    ELSE Append(points, align(p, points[Len(points)]))

add_point(o, p) == update_line([o EXCEPT !.points = AddPoint(o.points, p)])

\* del self.points[idx]: Python accepts -len <= idx < len and raises
\* IndexError otherwise, leaving the list as it is
IndexInRange(points, idx) == -Len(points) <= idx /\ idx < Len(points)

DelPoint(points, idx) ==
    IF IndexInRange(points, idx)
    THEN [points |-> ListDel(points, (IF idx < 0 THEN idx + Len(points)
                                                 ELSE idx) + 1),
          error |-> ""]
    ELSE [points |-> points, error |-> "IndexError"]

\* Wire.remove_pt: update_line is skipped when del raises
remove_pt(o, idx) ==
    LET d == DelPoint(o.points, idx)
    IN  IF d.error = ""
        THEN [obj |-> update_line([o EXCEPT !.points = d.points]),
              error |-> ""]
        ELSE [obj |-> o, error |-> d.error]

----------------------------------------------------------------------------
\* PropertiesBox

clear_props(w) == {}

\* show_props(props) for props = {"Name": label}: clear, then one field
show_props(w, label) == clear_props(w) \cup { <<"Name", label>> }

----------------------------------------------------------------------------
\* Canvas

\* The Canvas (with its PropertiesBox) as one record
State ==
    [objects |-> objects, selected |-> selected,
     last_mouse_pos |-> last_mouse_pos, mode |-> mode, active |-> active,
     widgets |-> widgets, error |-> "", created |-> created]

\* Position in the scene of the object with identity id (0 when absent)
IndexOf(objs, id) ==
    IF \E i \in 1..Len(objs) : objs[i].id = id
    THEN CHOOSE i \in 1..Len(objs) : objs[i].id = id
    ELSE 0

\* Canvas.__init__: test_module and test_wire
InitObjects ==
    << NewModule(1),
       NewWire(2, << <<100, 200>>, <<100, 350>>, <<350, 350>>, <<350, 250>> >>) >>

\* The loop body with a press that toggles a selected object off when hit
PressStep_Toggle(s, i, pos, shift, ctrl) ==
    LET o == s.objects[i]
    IN  IF in_bounds(o, pos)
        THEN IF ~o.selected
             THEN [s EXCEPT !.objects[i] = select(o, TRUE),
                            !.selected = Append(s.selected, o.id)]
             ELSE [s EXCEPT !.objects[i] = select(o, FALSE),
                            !.selected = ListRemove(s.selected, o.id)]
        ELSE IF o.selected /\ ~shift /\ ~ctrl
             THEN [s EXCEPT !.objects[i] = select(o, FALSE),
                            !.selected = ListRemove(s.selected, o.id)]
             ELSE s

\* mousePressEvent, NORMAL: the loop body for the object at position i
PressStep(s, i, pos, shift, ctrl) ==
    LET o == s.objects[i]
    IN  IF in_bounds(o, pos)
        THEN IF ~o.selected
             THEN [s EXCEPT !.objects[i] = select(o, TRUE),
                            !.selected = Append(s.selected, o.id)]
             ELSE s
        ELSE IF o.selected /\ ~shift /\ ~ctrl
             THEN IF o.id \in Range(s.selected)
                  THEN [s EXCEPT !.objects[i] = select(o, FALSE),
                                 !.selected = ListRemove(s.selected, o.id)]
                  ELSE [s EXCEPT !.objects[i] = select(o, FALSE),
                                 !.error = "ValueError"]
             ELSE s

\* mousePressEvent, NORMAL: for o in self.objects, from position i on
RECURSIVE PressScan(_, _, _, _, _)
PressScan(s, i, pos, shift, ctrl) ==
    IF i > Len(s.objects) \/ s.error # ""
    THEN s
    ELSE PressScan(PressStep(s, i, pos, shift, ctrl), i + 1, pos, shift, ctrl)

\* mousePressEvent, NORMAL: the panel follows the selection size
PressPublish(s) ==
    IF Len(s.selected) = 1
    THEN [s EXCEPT !.widgets =
             show_props(s.widgets,
                 IF IndexOf(s.objects, s.selected[1]) = 0
                 THEN NoLabel
                 ELSE s.objects[IndexOf(s.objects, s.selected[1])].label)]
    ELSE [s EXCEPT !.widgets = clear_props(s.widgets)]

PressNormal(s, pos, shift, ctrl) ==
    LET t == PressScan(s, 1, pos, shift, ctrl)
    IN  IF t.error = "" THEN PressPublish(t) ELSE t

\* A press that seeds the new wire with one copy of the click point
PressDrawWire_OneSeed(s, pos) ==
    IF s.active = NoneId
    THEN LET new_wire == NewWire(s.created + 1, <<pos>>)
         IN  [s EXCEPT !.created = s.created + 1,
                       !.active = new_wire.id,
                       !.objects = Append(s.objects, new_wire)]
    ELSE LET i == IndexOf(s.objects, s.active)
         IN  [s EXCEPT !.objects[i] = add_point(s.objects[i], pos)]

\* mousePressEvent, DRAW_WIRE
PressDrawWire(s, pos) ==
    IF s.active = NoneId
    THEN LET new_wire == NewWire(s.created + 1, <<pos, pos>>)
         IN  [s EXCEPT !.created = s.created + 1,
                       !.active = new_wire.id,
                       !.objects = Append(s.objects, new_wire)]
    ELSE LET i == IndexOf(s.objects, s.active)
         IN  IF s.objects[i].cls = "Wire"
             THEN [s EXCEPT !.objects[i] = add_point(s.objects[i], pos)]
             ELSE s

\* A press that leaves the new module at the default position
PressDrawModule_DefaultPos(s, pos) ==
    IF s.active = NoneId
    THEN LET new_module == ModuleSetSize(NewModule(s.created + 1), <<0, 0>>)
         IN  [s EXCEPT !.created = s.created + 1,
                       !.active = new_module.id,
                       !.objects = Append(s.objects, new_module)]
    ELSE s

\* mousePressEvent, DRAW_MODULE
PressDrawModule(s, pos) ==
    IF s.active = NoneId
    THEN LET new_module ==
                 ModuleSetSize(ModuleSetPos(NewModule(s.created + 1), pos),
                               <<0, 0>>)
         IN  [s EXCEPT !.created = s.created + 1,
                       !.active = new_module.id,
                       !.objects = Append(s.objects, new_module)]
    ELSE s

mousePress(s, pos, shift, ctrl) ==
    LET t == [s EXCEPT !.last_mouse_pos = pos]
    IN  CASE t.mode = NORMAL -> PressNormal(t, pos, shift, ctrl)
          [] t.mode = DRAW_WIRE -> PressDrawWire(t, pos)
          [] t.mode = DRAW_MODULE -> PressDrawModule(t, pos)

\* A release that ends whatever drawing mode is on
mouseRelease_AnyMode(s, pos) ==
    LET t == [s EXCEPT !.last_mouse_pos = pos]
    IN  IF t.mode # NORMAL
        THEN [t EXCEPT !.active = NoneId, !.mode = NORMAL]
        ELSE t

mouseRelease(s, pos) ==
    LET t == [s EXCEPT !.last_mouse_pos = pos]
    IN  IF t.mode = DRAW_MODULE
        THEN [t EXCEPT !.active = NoneId, !.mode = NORMAL]
        ELSE t

\* Double-click that ends the wire and keeps the rubber-banded point
DoubleClickDrawWire_KeepPoint(s) ==
    IF s.active # NoneId
    THEN [s EXCEPT !.active = NoneId, !.mode = NORMAL]
    ELSE s

\* Double-click that ends the wire and keeps the active reference
DoubleClickDrawWire_KeepActive(s) ==
    IF s.active # NoneId
    THEN LET i == IndexOf(s.objects, s.active)
         IN  [s EXCEPT !.objects[i] = remove_pt(s.objects[i], -1).obj,
                       !.mode = NORMAL]
    ELSE s

\* mouseDoubleClickEvent, DRAW_WIRE
DoubleClickDrawWire(s) ==
    IF s.active # NoneId
       /\ s.objects[IndexOf(s.objects, s.active)].cls = "Wire"
    THEN LET i == IndexOf(s.objects, s.active)
             r == remove_pt(s.objects[i], -1)
         IN  IF r.error = ""
             THEN [s EXCEPT !.objects[i] = r.obj,
                            !.active = NoneId, !.mode = NORMAL]
             ELSE [s EXCEPT !.error = r.error]
    ELSE s

mouseDoubleClick(s, pos) ==
    LET t == [s EXCEPT !.last_mouse_pos = pos]
    IN  IF t.mode = DRAW_WIRE THEN DoubleClickDrawWire(t) ELSE t

\* mouseMoveEvent, NORMAL: for o in self.selected: o.move(dx, dy)
RECURSIVE MoveSelected(_, _, _, _, _)
MoveSelected(objs, sel, k, dx, dy) ==
    IF k > Len(sel)
    THEN objs
    ELSE LET i == IndexOf(objs, sel[k])
         IN  MoveSelected(
                 IF i = 0 THEN objs
                 ELSE [objs EXCEPT ![i] = move(objs[i], dx, dy)],
                 sel, k + 1, dx, dy)

MoveNormal(s, dx, dy, buttons) ==
    IF buttons
    THEN [s EXCEPT !.objects = MoveSelected(s.objects, s.selected, 1, dx, dy)]
    ELSE s

\* A move that adds the pointer's point without removing the last one
MoveDrawWire_NoRemove(s, pos) ==
    IF s.active # NoneId
    THEN LET i == IndexOf(s.objects, s.active)
         IN  [s EXCEPT !.objects[i] = add_point(s.objects[i], pos)]
    ELSE s

\* A move that removes the last point and does not add it back
MoveDrawWire_NoAdd(s, pos) ==
    IF s.active # NoneId
    THEN LET i == IndexOf(s.objects, s.active)
             r == remove_pt(s.objects[i], -1)
         IN  IF r.error = ""
             THEN [s EXCEPT !.objects[i] = r.obj]
             ELSE [s EXCEPT !.error = r.error]
    ELSE s

\* mouseMoveEvent, DRAW_WIRE: the last point follows the pointer
MoveDrawWire(s, pos) ==
    IF s.active # NoneId
       /\ s.objects[IndexOf(s.objects, s.active)].cls = "Wire"
    THEN LET i == IndexOf(s.objects, s.active)
             r == remove_pt(s.objects[i], -1)
         IN  IF r.error = ""
             THEN [s EXCEPT !.objects[i] = add_point(r.obj, pos)]
             ELSE [s EXCEPT !.error = r.error]
    ELSE s

\* mouseMoveEvent, DRAW_MODULE: resize from the anchor corner
MoveDrawModule(s, pos) ==
    IF s.active # NoneId
       /\ s.objects[IndexOf(s.objects, s.active)].cls = "Module"
    THEN LET i == IndexOf(s.objects, s.active)
             a == s.objects[i]
         IN  [s EXCEPT !.objects[i] =
                 ModuleSetSize(a, <<pos[1] - a.pos[1], pos[2] - a.pos[2]>>)]
    ELSE s

\* A move that drags the selection in every mode
mouseMove_DragAnyMode(s, pos, buttons) ==
    LET t == IF s.last_mouse_pos = None
             THEN [s EXCEPT !.last_mouse_pos = pos]
             ELSE s
        dx == pos[1] - t.last_mouse_pos[1]
        dy == pos[2] - t.last_mouse_pos[2]
        d == MoveNormal(t, dx, dy, buttons)
        u == CASE t.mode = NORMAL -> d
               [] t.mode = DRAW_WIRE -> MoveDrawWire(d, pos)
               [] t.mode = DRAW_MODULE -> MoveDrawModule(d, pos)
    IN  IF u.error = "" THEN [u EXCEPT !.last_mouse_pos = pos] ELSE u

mouseMove(s, pos, buttons) ==
    LET t == IF s.last_mouse_pos = None
             THEN [s EXCEPT !.last_mouse_pos = pos]
             ELSE s
        dx == pos[1] - t.last_mouse_pos[1]
        dy == pos[2] - t.last_mouse_pos[2]
        u == CASE t.mode = NORMAL -> MoveNormal(t, dx, dy, buttons)
               [] t.mode = DRAW_WIRE -> MoveDrawWire(t, pos)
               [] t.mode = DRAW_MODULE -> MoveDrawModule(t, pos)
    IN  IF u.error = "" THEN [u EXCEPT !.last_mouse_pos = pos] ELSE u

\* The loop body deleting at position i whatever object is selected last
DeleteStep_Last(s, i) ==
    IF s.objects[i].selected
    THEN [s EXCEPT !.selected = ListRemove(s.selected, s.objects[i].id),
                   !.objects = ListDel(s.objects, Len(s.objects))]
    ELSE s

\* The loop body deleting from the scene only
DeleteStep_KeepSelected(s, i) ==
    IF s.objects[i].selected
    THEN [s EXCEPT !.objects = ListDel(s.objects, i)]
    ELSE s

\* keyPressEvent, NORMAL, Backspace: the loop body at position i
DeleteStep(s, i) ==
    IF s.objects[i].selected
    THEN IF s.objects[i].id \in Range(s.selected)
         THEN [s EXCEPT !.selected = ListRemove(s.selected, s.objects[i].id),
                        !.objects = ListDel(s.objects, i)]
         ELSE [s EXCEPT !.error = "ValueError"]
    ELSE s

\* keyPressEvent, NORMAL, Backspace: for i in range(len - 1, -1, -1)
RECURSIVE DeleteSelected(_, _)
DeleteSelected(s, i) ==
    IF i < 1 \/ s.error # ""
    THEN s
    ELSE DeleteSelected(DeleteStep(s, i), i - 1)

KeyNormal(s, key) ==
    CASE key = "W" -> [s EXCEPT !.mode = DRAW_WIRE, !.active = NoneId]
      [] key = "M" -> [s EXCEPT !.mode = DRAW_MODULE, !.active = NoneId]
      [] key = "Backspace" -> DeleteSelected(s, Len(s.objects))
      [] OTHER -> s

\* Escape that also takes the object under construction out of the scene
KeyEscape_Rollback(s) ==
    [s EXCEPT !.mode = NORMAL, !.active = NoneId,
              !.objects = IF IndexOf(s.objects, s.active) = 0
                          THEN s.objects
                          ELSE ListDel(s.objects,
                                       IndexOf(s.objects, s.active))]

KeyEscape(s) == [s EXCEPT !.mode = NORMAL, !.active = NoneId]

keyPress(s, key) ==
    IF s.mode = NORMAL
    THEN KeyNormal(s, key)
    ELSE IF key = "Escape" THEN KeyEscape(s) ELSE s

----------------------------------------------------------------------------
\* Events

\* An event, with the mode, the active reference and the sizes of the scene
\* and of the selection it found; and of the stay in a drawing mode it
\* belongs to: the pointer-downs received in DRAW_WIRE up to and including
\* it, the place of the first of them, and the size of the scene when the
\* drawing mode was entered
Event(kind, pos, shift, ctrl, buttons, key) ==
    [kind |-> kind, pos |-> pos, shift |-> shift, ctrl |-> ctrl,
     buttons |-> buttons, key |-> key,
     mode |-> mode, active |-> active,
     nobjects |-> Len(objects), nselected |-> Len(selected),
     presses |-> IF mode = DRAW_WIRE
                 THEN ev.presses + (IF kind = "press" THEN 1 ELSE 0)
                 ELSE 0,
     start |-> IF mode = DRAW_WIRE
               THEN (IF kind = "press" /\ ev.presses = 0 THEN pos
                     ELSE ev.start)
               ELSE None,
     base |-> IF mode = NORMAL THEN Len(objects) ELSE ev.base]

\* The handler for event e has run to its end (or raised), leaving t
Deliver(e, t) ==
    /\ objects' = t.objects
    /\ selected' = t.selected
    /\ last_mouse_pos' = t.last_mouse_pos
    /\ mode' = t.mode
    /\ active' = t.active
    /\ widgets' = t.widgets
    /\ error' = t.error
    /\ created' = t.created
    /\ ev' = e
    /\ UNCHANGED unitVars

\* The module's position, or every point of the wire, lies in the window
InWindow(o) ==
    IF o.cls = "Module"
    THEN /\ o.pos[1] \in MinCoord..MaxCoord
         /\ o.pos[2] \in MinCoord..MaxCoord
    ELSE \A k \in 1..Len(o.points) :
             /\ o.points[k][1] \in MinCoord..MaxCoord
             /\ o.points[k][2] \in MinCoord..MaxCoord

\* A drag is delivered only while the objects it moves stay in the window
DragInWindow(s, t) ==
    \A i \in 1..Len(t.objects) :
        t.objects[i] # s.objects[i] => InWindow(t.objects[i])

mousePressEvent(pos, shift, ctrl) ==
    /\ mode # NORMAL /\ active = NoneId => created < MaxObjects
    /\ mode = DRAW_WIRE /\ active # NoneId =>
           Len(objects[IndexOf(objects, active)].points) < MaxPoints
    /\ Deliver(Event("press", pos, shift, ctrl, FALSE, ""),
               mousePress(State, pos, shift, ctrl))

mouseReleaseEvent(pos) ==
    Deliver(Event("release", pos, FALSE, FALSE, FALSE, ""),
            mouseRelease(State, pos))

mouseDoubleClickEvent(pos) ==
    Deliver(Event("doubleclick", pos, FALSE, FALSE, FALSE, ""),
            mouseDoubleClick(State, pos))

mouseMoveEvent(pos, buttons) ==
    /\ mode = NORMAL => DragInWindow(State, mouseMove(State, pos, buttons))
    /\ Deliver(Event("move", pos, FALSE, FALSE, buttons, ""),
               mouseMove(State, pos, buttons))

keyPressEvent(key) ==
    Deliver(Event("key", None, FALSE, FALSE, FALSE, key),
            keyPress(State, key))

Init ==
    /\ objects = InitObjects
    /\ selected = <<>>
    /\ last_mouse_pos = None
    /\ mode = NORMAL
    /\ active = NoneId
    /\ widgets = {}
    /\ error = ""
    /\ created = Len(InitObjects)
    /\ ev = [kind |-> "none", pos |-> None, shift |-> FALSE, ctrl |-> FALSE,
             buttons |-> FALSE, key |-> "", mode |-> NORMAL,
             active |-> NoneId, nobjects |-> Len(InitObjects),
             nselected |-> 0, presses |-> 0, start |-> None,
             base |-> Len(InitObjects)]
    /\ uwire = NewWire(1, <<>>)
    /\ uop = [op |-> "none", p |-> None, idx |-> 0, before |-> <<>>,
              error |-> ""]

Next ==
    \/ \E pos \in Positions, shift \in BOOLEAN, ctrl \in BOOLEAN :
           mousePressEvent(pos, shift, ctrl)
    \/ \E pos \in Positions : mouseReleaseEvent(pos)
    \/ \E pos \in Positions : mouseDoubleClickEvent(pos)
    \/ \E pos \in Positions, buttons \in BOOLEAN : mouseMoveEvent(pos, buttons)
    \/ \E key \in Keys : keyPressEvent(key)

Spec == Init /\ [][Next]_vars

----------------------------------------------------------------------------
\* Wire unit harness: add_point and remove_pt called on a stand-alone Wire

UnitAddPoint(p) ==
    /\ Len(uwire.points) < MaxUnitPoints
    /\ uwire' = add_point(uwire, p)
    /\ uop' = [op |-> "add_point", p |-> p, idx |-> 0,
               before |-> uwire.points, error |-> ""]
    /\ UNCHANGED canvasVars

UnitRemovePt(idx) ==
    /\ uwire' = remove_pt(uwire, idx).obj
    /\ uop' = [op |-> "remove_pt", p |-> None, idx |-> idx,
               before |-> uwire.points, error |-> remove_pt(uwire, idx).error]
    /\ UNCHANGED canvasVars

NextWire ==
    \/ \E p \in UnitPoints : UnitAddPoint(p)
    \/ \E idx \in (-MaxIdx)..MaxIdx : UnitRemovePt(idx)

SpecWire == Init /\ [][NextWire]_vars

----------------------------------------------------------------------------
\* Properties

\* Identities held by the Selection Set
SelectionSet == Range(selected)

\* Identities of the scene objects whose hit-test at p is true
HitSet(objs, p) ==
    { objs[i].id : i \in { j \in 1..Len(objs) : in_bounds(objs[j], p) } }

IsModule(o) == o.cls = "Module"

IsWire(o) == o.cls = "Wire"

\* C1: after every event, an object of the scene has its selected flag set
\* if and only if it is a member of the Selection Set.
C1_SelectedIffInSelection ==
    \A i \in 1..Len(objects) :
        objects[i].selected <=> objects[i].id \in SelectionSet

\* A press without modifiers has deselected one object and left (or made)
\* another one selected.
C1_Witness ==
    /\ ev.kind = "press" /\ ev.mode = NORMAL /\ ~ev.shift /\ ~ev.ctrl
    /\ ev.nselected >= 1
    /\ \E i, j \in 1..Len(objects) :
           /\ objects[i].selected /\ objects[i].id \in SelectionSet
           /\ ~objects[j].selected /\ objects[j].id \notin SelectionSet
           /\ ~in_bounds(objects[j], ev.pos)

\* C2: after every event the properties panel shows fields if and only if
\* the Selection Set has exactly one member.
C2_PanelIffSingleSelection == (widgets # {}) <=> (Len(selected) = 1)

\* C3: every Module of the scene has width and height of at least MIN_SIZE,
\* in its size and in its cached rectangle.
C3_ModuleAtLeastMinSize ==
    \A i \in 1..Len(objects) :
        IsModule(objects[i]) =>
            /\ objects[i].size[1] >= MIN_SIZE /\ objects[i].size[2] >= MIN_SIZE
            /\ objects[i].rect[3] >= MIN_SIZE /\ objects[i].rect[4] >= MIN_SIZE

\* A pointer-move in DrawingModule to a point left of the anchor of the
\* module under construction: the negative width was clamped.
C3_Witness ==
    /\ ev.kind = "move" /\ ev.mode = DRAW_MODULE /\ active # NoneId
    /\ \E i \in 1..Len(objects) :
           /\ objects[i].id = active /\ IsModule(objects[i])
           /\ ev.pos[1] - objects[i].pos[1] < 0
           /\ objects[i].size[1] = MIN_SIZE
           /\ objects[i].size[2] > MIN_SIZE

\* C4: every two consecutive points of every Wire of the scene agree in x
\* or in y.
C4_WireSegmentsOrthogonal ==
    \A i \in 1..Len(objects) :
        IsWire(objects[i]) =>
            \A k \in 2..Len(objects[i].points) :
                \/ objects[i].points[k][1] = objects[i].points[k - 1][1]
                \/ objects[i].points[k][2] = objects[i].points[k - 1][2]

\* A pointer-move in DrawingWire has rubber-banded the last point of a wire
\* of three points to a place that is not the pointer's: it was snapped.
C4_Witness ==
    /\ ev.kind = "move" /\ ev.mode = DRAW_WIRE /\ active # NoneId
    /\ \E i \in 1..Len(objects) :
           /\ objects[i].id = active /\ IsWire(objects[i])
           /\ Len(objects[i].points) = 3
           /\ objects[i].points[3] # ev.pos
           /\ objects[i].points[3] # objects[i].points[2]

\* C5: a pointer-down in Normal mode at p leaves the mode Normal and makes
\* the Selection Set the set of objects hit at p, united with the previous
\* selection when Shift or Control is held; the flags follow.
C5_PressSelectsHitObjects ==
    [][ (mode = NORMAL /\ ev'.kind = "press") =>
            /\ mode' = NORMAL
            /\ Range(selected') =
                   IF ev'.shift \/ ev'.ctrl
                   THEN SelectionSet \cup HitSet(objects, ev'.pos)
                   ELSE HitSet(objects, ev'.pos)
            /\ Len(selected') = Cardinality(Range(selected'))
            /\ Len(objects') = Len(objects)
            /\ \A i \in 1..Len(objects) :
                   /\ objects'[i].selected =
                          (objects[i].id \in Range(selected'))
                   /\ objects'[i] =
                          [objects[i] EXCEPT !.selected = objects'[i].selected]
      ]_vars

\* A press without modifiers on two overlapping objects, one of them
\* already selected: both are selected afterwards.
C5_Witness ==
    /\ ev.kind = "press" /\ ev.mode = NORMAL /\ ~ev.shift /\ ~ev.ctrl
    /\ ev.nselected = 1
    /\ Len(selected) = 2
    /\ Cardinality(HitSet(objects, ev.pos)) = 2
    /\ SelectionSet = HitSet(objects, ev.pos)

\* C6: Backspace in Normal mode removes exactly the selected objects from
\* the scene, empties the Selection Set and keeps the other objects, in
\* order and unchanged.
C6_BackspaceDeletesSelection ==
    [][ (mode = NORMAL /\ ev'.kind = "key" /\ ev'.key = "Backspace") =>
            LET Kept(o) == o.id \notin SelectionSet
            IN  /\ objects' = SelectSeq(objects, Kept)
                /\ Len(objects') = Len(objects) - Len(selected)
                /\ selected' = <<>>
                /\ mode' = NORMAL
      ]_vars

\* Backspace has deleted two selected objects and kept a third one.
C6_Witness ==
    /\ ev.kind = "key" /\ ev.key = "Backspace" /\ ev.mode = NORMAL
    /\ ev.nselected = 2
    /\ ev.nobjects = 3
    /\ Len(objects) = 1
    /\ selected = <<>>

\* C7: Escape leaves the machine in Normal with no active object and changes
\* neither the scene nor the Selection Set.
C7_EscapeNoRollback ==
    [][ (ev'.kind = "key" /\ ev'.key = "Escape") =>
            /\ mode' = NORMAL
            /\ active' = NoneId
            /\ objects' = objects
            /\ selected' = selected
      ]_vars

\* Escape during DrawingWire with a wire of three points under construction:
\* the wire is still in the scene, with its three points.
C7_Witness ==
    /\ ev.kind = "key" /\ ev.key = "Escape"
    /\ ev.mode = DRAW_WIRE /\ ev.active # NoneId
    /\ mode = NORMAL /\ active = NoneId
    /\ \E i \in 1..Len(objects) :
           objects[i].id = ev.active /\ Len(objects[i].points) = 3

\* C8 as stated: every double-click received in DrawingWire leaves the
\* machine in Normal with no active object.
C8_DoubleClickAlwaysEnds ==
    (ev.kind = "doubleclick" /\ ev.mode = DRAW_WIRE) =>
        (mode = NORMAL /\ active = NoneId)

\* C8 amended: a double-click in DrawingWire with a wire under construction
\* leaves the machine in Normal with no active object and removes exactly
\* the last point of that wire; with no wire under construction it leaves
\* the mode DrawingWire and changes nothing in the scene.
C8_DoubleClickEndsActiveWire ==
    [][ (mode = DRAW_WIRE /\ ev'.kind = "doubleclick") =>
            IF active # NoneId
            THEN LET i == IndexOf(objects, active)
                 IN  /\ mode' = NORMAL
                     /\ active' = NoneId
                     /\ Len(objects[i].points) >= 1
                     /\ objects' =
                            [objects EXCEPT ![i] =
                                update_line([objects[i] EXCEPT !.points =
                                    SubSeq(objects[i].points, 1,
                                           Len(objects[i].points) - 1)])]
                     /\ selected' = selected
            ELSE /\ mode' = DRAW_WIRE
                 /\ active' = NoneId
                 /\ objects' = objects
                 /\ selected' = selected
      ]_vars

\* A double-click has ended a wire that had three points: it has two.
C8_Witness ==
    /\ ev.kind = "doubleclick" /\ ev.mode = DRAW_WIRE /\ ev.active # NoneId
    /\ mode = NORMAL /\ active = NoneId
    /\ \E i \in 1..Len(objects) :
           /\ objects[i].id = ev.active
           /\ Len(objects[i].points) = 2
           /\ objects[i].points[1] # objects[i].points[2]

\* C9: remove_pt with an index out of range leaves the points unchanged and
\* raises no error.
C9_RemoveOutOfRangeIsNoOp ==
    (uop.op = "remove_pt" /\ ~IndexInRange(uop.before, uop.idx)) =>
        (uwire.points = uop.before /\ uop.error = "")

\* C10: add_point(p) appends exactly one point: p on an empty wire, and with
\* q the last point (q.x, p.y) when |p.x - q.x| < |p.y - q.y| and (p.x, q.y)
\* otherwise; on [(100,200),(100,350)], add_point((200,360)) appends
\* (200,350).
C10_AddPointAppendsAligned ==
    uop.op = "add_point" =>
        LET p == uop.p
            n == Len(uop.before)
            q == uop.before[n]
            expected ==
                IF n = 0 THEN p
                ELSE IF Abs(p[1] - q[1]) < Abs(p[2] - q[2])
                     THEN <<q[1], p[2]>>
                     ELSE <<p[1], q[2]>>
        IN  /\ Len(uwire.points) = n + 1
            /\ SubSeq(uwire.points, 1, n) = uop.before
            /\ uwire.points[n + 1] = expected
            /\ (uop.before = << <<100, 200>>, <<100, 350>> >>
                /\ p = <<200, 360>>) => uwire.points[n + 1] = <<200, 350>>

\* add_point((200,360)) on [(100,200),(100,350)] has appended (200,350).
C10_Witness ==
    /\ uop.op = "add_point" /\ uop.p = <<200, 360>>
    /\ uop.before = << <<100, 200>>, <<100, 350>> >>
    /\ uwire.points = << <<100, 200>>, <<100, 350>>, <<200, 350>> >>

\* C11: after every event the cached rectangle of every Module is
\* (position.x, position.y, size.w, size.h) and the cached polyline of every
\* Wire has one vertex per point, equal to it and in the same order.
C11_CachedGeometryFresh ==
    \A i \in 1..Len(objects) :
        IF IsModule(objects[i])
        THEN objects[i].rect =
                 <<objects[i].pos[1], objects[i].pos[2],
                   objects[i].size[1], objects[i].size[2]>>
        ELSE /\ Len(objects[i].line) = Len(objects[i].points)
             /\ \A k \in 1..Len(objects[i].points) :
                    objects[i].line[k] = objects[i].points[k]

\* A drag has left a selected Module away from the place it was constructed
\* at, next to a Wire whose points were rubber-banded and then cut by a
\* double-click.
C11_Witness ==
    /\ ev.kind = "move" /\ ev.mode = NORMAL /\ ev.buttons
    /\ \E i, j \in 1..Len(objects) :
           /\ IsModule(objects[i]) /\ objects[i].selected
           /\ objects[i].id = 1 /\ objects[i].pos # <<200, 200>>
           /\ objects[i].rect[1] = objects[i].pos[1]
           /\ IsWire(objects[j]) /\ objects[j].id > 2
           /\ Len(objects[j].points) = 2
           /\ objects[j].line = objects[j].points

\* C12: in a DrawingWire session the first pointer-down at c appends a new
\* Wire with points [c, c] to the end of the scene and makes it active; while
\* the session lasts the wire has one point more than pointer-downs were
\* received and its first point is c; a wire finalized by double-click has
\* as many points as pointer-downs were received and its first point is c;
\* and W, pointer-down at (0,0), move to (50,5), double-click leaves [(0,0)].
C12_WireSessionPointCount ==
    /\ (ev.kind = "press" /\ ev.mode = DRAW_WIRE /\ ev.active = NoneId) =>
           /\ Len(objects) = ev.nobjects + 1
           /\ active # NoneId
           /\ objects[Len(objects)].id = active
           /\ IsWire(objects[Len(objects)])
           /\ objects[Len(objects)].points = <<ev.pos, ev.pos>>
           /\ mode = DRAW_WIRE
    /\ (mode = DRAW_WIRE /\ active # NoneId) =>
           LET w == objects[IndexOf(objects, active)]
           IN  /\ Len(w.points) = ev.presses + 1
               /\ w.points[1] = ev.start
    /\ (ev.kind = "doubleclick" /\ ev.mode = DRAW_WIRE
        /\ ev.active # NoneId) =>
           LET w == objects[IndexOf(objects, ev.active)]
           IN  /\ ev.presses >= 1
               /\ Len(w.points) = ev.presses
               /\ w.points[1] = ev.start
    /\ LET s0 == [objects |-> InitObjects, selected |-> <<>>,
                  last_mouse_pos |-> None, mode |-> NORMAL,
                  active |-> NoneId, widgets |-> {}, error |-> "",
                  created |-> Len(InitObjects)]
           s1 == keyPress(s0, "W")
           s2 == mousePress(s1, <<0, 0>>, FALSE, FALSE)
           s3 == mouseMove(s2, <<50, 5>>, FALSE)
           s4 == mouseDoubleClick(s3, <<50, 5>>)
       IN  /\ s2.objects[3].points = << <<0, 0>>, <<0, 0>> >>
           /\ Len(s3.objects[3].points) = 2
           /\ s4.objects[3].points = << <<0, 0>> >>
           /\ s4.mode = NORMAL /\ s4.active = NoneId

\* A double-click has finalized a wire after two pointer-downs: it has two
\* points, the first of them where the first pointer-down was.
C12_Witness ==
    /\ ev.kind = "doubleclick" /\ ev.mode = DRAW_WIRE /\ ev.active # NoneId
    /\ ev.presses = 2
    /\ mode = NORMAL
    /\ \E i \in 1..Len(objects) :
           /\ objects[i].id = ev.active
           /\ Len(objects[i].points) = 2
           /\ objects[i].points[1] = ev.start
           /\ i = Len(objects)

\* C13: a double-click in Normal or DrawingModule, a pointer-up in Normal or
\* DrawingWire, and the keys W, M and Backspace in DrawingWire or
\* DrawingModule leave the mode, the active reference, the scene and the
\* Selection Set unchanged.
C13_UnlistedEventsAreNoOps ==
    [][ ( \/ ev'.kind = "doubleclick" /\ mode \in {NORMAL, DRAW_MODULE}
          \/ ev'.kind = "release" /\ mode \in {NORMAL, DRAW_WIRE}
          \/ /\ ev'.kind = "key"
             /\ ev'.key \in {"W", "M", "Backspace"}
             /\ mode \in {DRAW_WIRE, DRAW_MODULE} ) =>
            /\ mode' = mode
            /\ active' = active
            /\ objects' = objects
            /\ selected' = selected
            /\ error' = ""
      ]_vars

\* A pointer-up during DrawingWire with a wire under construction and an
\* object selected: the session goes on.
C13_Witness ==
    /\ ev.kind = "release" /\ ev.mode = DRAW_WIRE /\ ev.active # NoneId
    /\ mode = DRAW_WIRE /\ active = ev.active
    /\ Len(objects) = ev.nobjects
    /\ Len(selected) = ev.nselected /\ Len(selected) >= 1

\* C14: every member of the Selection Set is an object of the scene and
\* appears in the Selection Set once.
C14_SelectionWithinScene ==
    /\ \A k \in 1..Len(selected) :
           \E i \in 1..Len(objects) : objects[i].id = selected[k]
    /\ \A k, l \in 1..Len(selected) : selected[k] = selected[l] => k = l
    /\ \A i, j \in 1..Len(objects) : objects[i].id = objects[j].id => i = j

\* After an object was deleted, a press with Shift has added a second
\* member to the Selection Set: both are in the scene.
C14_Witness ==
    /\ ev.kind = "press" /\ ev.mode = NORMAL /\ ev.shift
    /\ ev.nselected = 1 /\ Len(selected) = 2
    /\ Len(objects) = 2 /\ created = 3
    /\ \A k \in 1..2 : \E i \in 1..2 : objects[i].id = selected[k]

\* C15: a pointer-move to m in DrawingWire with an active wire of n >= 2
\* points leaves it with n points, the first n-1 unchanged and the last one
\* the alignment of m with point n-1; the other objects, the mode and the
\* Selection Set are unchanged. With no active wire nothing changes.
C15_MoveRubberBandsLastPoint ==
    [][ (mode = DRAW_WIRE /\ ev'.kind = "move") =>
            /\ mode' = mode
            /\ active' = active
            /\ selected' = selected
            /\ IF active = NoneId
               THEN objects' = objects
               ELSE LET i == IndexOf(objects, active)
                        w == objects[i]
                        n == Len(w.points)
                        m == ev'.pos
                        q == w.points[n - 1]
                        last == objects'[i].points[n]
                    IN  /\ n >= 2
                        /\ Len(objects') = Len(objects)
                        /\ \A j \in 1..Len(objects) :
                               j # i => objects'[j] = objects[j]
                        /\ Len(objects'[i].points) = n
                        /\ \A k \in 1..(n - 1) :
                               objects'[i].points[k] = w.points[k]
                        /\ last = IF Abs(m[1] - q[1]) < Abs(m[2] - q[2])
                                  THEN <<q[1], m[2]>>
                                  ELSE <<m[1], q[2]>>
                        /\ \/ last[1] = q[1] /\ last[2] = m[2]
                           \/ last[2] = q[2] /\ last[1] = m[1]
                        /\ objects'[i] =
                               [w EXCEPT !.points = objects'[i].points,
                                         !.line = objects'[i].line]
      ]_vars

\* A pointer-move has rubber-banded the third point of the active wire: it
\* has the x of the second point and the y of the pointer.
C15_Witness ==
    /\ ev.kind = "move" /\ ev.mode = DRAW_WIRE /\ mode = DRAW_WIRE
    /\ active # NoneId /\ active = ev.active
    /\ LET w == objects[IndexOf(objects, active)]
       IN  /\ Len(w.points) = 3
           /\ w.points[3][1] = w.points[2][1]
           /\ w.points[3][2] = ev.pos[2]
           /\ w.points[3][1] # ev.pos[1]

\* C16: in DrawingModule a pointer-down at c with no active object appends
\* one new Module at position c and makes it active, and a pointer-down with
\* a module active creates nothing; a pointer-move to m sets the active
\* module's size to (max(m.x - c.x, MIN_SIZE), max(m.y - c.y, MIN_SIZE)) and
\* keeps its position; a pointer-up leaves the machine in Normal with no
\* active object and the scene as it was.
C16_DrawModuleGesture ==
    [][ (mode = DRAW_MODULE /\ ev'.kind \in {"press", "move", "release"}) =>
            /\ selected' = selected
            /\ ev'.kind = "press" /\ active = NoneId =>
                   /\ mode' = DRAW_MODULE
                   /\ Len(objects') = Len(objects) + 1
                   /\ SubSeq(objects', 1, Len(objects)) = objects
                   /\ IsModule(objects'[Len(objects')])
                   /\ objects'[Len(objects')].pos = ev'.pos
                   /\ objects'[Len(objects')].size = <<MIN_SIZE, MIN_SIZE>>
                   /\ ~objects'[Len(objects')].selected
                   /\ active' = objects'[Len(objects')].id
                   /\ active' # NoneId
                   /\ \A j \in 1..Len(objects) : objects[j].id # active'
            /\ ev'.kind = "press" /\ active # NoneId =>
                   /\ mode' = DRAW_MODULE
                   /\ active' = active
                   /\ objects' = objects
            /\ ev'.kind = "move" /\ active = NoneId =>
                   /\ mode' = DRAW_MODULE
                   /\ active' = active
                   /\ objects' = objects
            /\ ev'.kind = "move" /\ active # NoneId =>
                   LET i == IndexOf(objects, active)
                       c == objects[i].pos
                       m == ev'.pos
                   IN  /\ mode' = DRAW_MODULE
                       /\ active' = active
                       /\ Len(objects') = Len(objects)
                       /\ \A j \in 1..Len(objects) :
                              j # i => objects'[j] = objects[j]
                       /\ objects'[i].pos = c
                       /\ objects'[i].size =
                              << IF m[1] - c[1] >= MIN_SIZE
                                 THEN m[1] - c[1] ELSE MIN_SIZE,
                                 IF m[2] - c[2] >= MIN_SIZE
                                 THEN m[2] - c[2] ELSE MIN_SIZE >>
            /\ ev'.kind = "release" =>
                   /\ mode' = NORMAL
                   /\ active' = NoneId
                   /\ objects' = objects
      ]_vars

\* A pointer-up has ended a module drawn from (200,350) with the pointer
\* last at (250,250): it is at (200,350) with size (50, MIN_SIZE).
C16_Witness ==
    /\ ev.kind = "release" /\ ev.mode = DRAW_MODULE /\ ev.active # NoneId
    /\ mode = NORMAL /\ active = NoneId
    /\ \E i \in 1..Len(objects) :
           /\ objects[i].id = ev.active /\ IsModule(objects[i])
           /\ objects[i].pos = <<200, 350>>
           /\ objects[i].size = <<50, MIN_SIZE>>

\* C17: a pointer-move in Normal mode with a button held translates the
\* position of every selected Module and every point of every selected Wire
\* by (pointer position - position of the previous pointer event), changes
\* no size and no point count and leaves unselected objects unchanged; with
\* no button held it changes no object. Selection Set and mode stay.
C17_DragTranslatesSelection ==
    [][ (mode = NORMAL /\ ev'.kind = "move") =>
            LET dx == IF last_mouse_pos = None THEN 0
                      ELSE ev'.pos[1] - last_mouse_pos[1]
                dy == IF last_mouse_pos = None THEN 0
                      ELSE ev'.pos[2] - last_mouse_pos[2]
            IN  /\ mode' = NORMAL
                /\ selected' = selected
                /\ active' = active
                /\ Len(objects') = Len(objects)
                /\ \A i \in 1..Len(objects) :
                       LET o == objects[i]
                           n == objects'[i]
                       IN  IF ev'.buttons /\ o.id \in SelectionSet
                           THEN /\ n.id = o.id /\ n.cls = o.cls
                                /\ n.size = o.size
                                /\ n.selected = o.selected
                                /\ IsModule(o) =>
                                       n.pos = <<o.pos[1] + dx, o.pos[2] + dy>>
                                /\ IsWire(o) =>
                                       /\ Len(n.points) = Len(o.points)
                                       /\ \A k \in 1..Len(o.points) :
                                              n.points[k] =
                                                  <<o.points[k][1] + dx,
                                                    o.points[k][2] + dy>>
                           ELSE n = o
      ]_vars

\* A drag with a Module and a Wire selected together: the Wire, drawn with
\* its points at pointer positions, has its first point elsewhere.
C17_Witness ==
    /\ ev.kind = "move" /\ ev.mode = NORMAL /\ ev.buttons
    /\ ev.nselected = 2
    /\ \E i, j \in 1..Len(objects) :
           /\ IsModule(objects[i]) /\ objects[i].selected
           /\ IsWire(objects[j]) /\ objects[j].selected
           /\ objects[j].id > 2
           /\ objects[j].points[1] \notin Positions
           /\ objects[i].pos \notin (Positions \cup {<<200, 200>>})

\* C18: in Normal mode there is no active object; an active object is in
\* the scene, a Wire in DrawingWire and a Module in DrawingModule; and the
\* scene holds at most one object more than when the drawing mode was
\* entered (one more exactly while an object is active).
C18_ActiveObjectConsistent ==
    /\ mode = NORMAL => active = NoneId
    /\ active # NoneId =>
           \E i \in 1..Len(objects) :
               /\ objects[i].id = active
               /\ mode = DRAW_WIRE => IsWire(objects[i])
               /\ mode = DRAW_MODULE => IsModule(objects[i])
    /\ mode # NORMAL =>
           Len(objects) = ev.base + (IF active = NoneId THEN 0 ELSE 1)
    /\ ev.mode # NORMAL =>
           /\ Len(objects) >= ev.base
           /\ Len(objects) <= ev.base + 1

\* A pointer-down in DrawingModule with a module already active: the scene
\* still holds one object more than when M was pressed.
C18_Witness ==
    /\ ev.kind = "press" /\ ev.mode = DRAW_MODULE /\ ev.active # NoneId
    /\ mode = DRAW_MODULE /\ active = ev.active
    /\ Len(objects) = ev.base + 1
    /\ IsModule(objects[IndexOf(objects, active)])

\* C19: the active wire has at least 2 points, so the removal of the last
\* point by a DrawingWire pointer-move or double-click never meets an empty
\* sequence and no handler raises; and every Wire of the scene has at least
\* 1 point.
C19_ActiveWireHasTwoPoints ==
    /\ \A i \in 1..Len(objects) :
           IsWire(objects[i]) =>
               /\ Len(objects[i].points) >= 1
               /\ objects[i].id = active => Len(objects[i].points) >= 2
    /\ error = ""

\* A double-click right after the first pointer-down and a pointer-move has
\* left a wire of exactly one point.
C19_Witness ==
    /\ ev.kind = "doubleclick" /\ ev.mode = DRAW_WIRE /\ ev.active # NoneId
    /\ ev.presses = 1
    /\ error = ""
    /\ \E i \in 1..Len(objects) :
           /\ objects[i].id = ev.active /\ IsWire(objects[i])
           /\ Len(objects[i].points) = 1
           /\ last_mouse_pos # objects[i].points[1]

\* C20: an input event handled in DrawingWire or DrawingModule leaves the
\* Selection Set and every selected flag as they were, leaves every selected
\* object unchanged and in the scene, and adds only unselected objects; and
\* in every state the active object is unselected and outside the Selection
\* Set.
C20_DrawingKeepsSelection ==
    /\ [][mode # NORMAL =>
              /\ selected' = selected
              /\ Len(objects') >= Len(objects)
              /\ \A i \in 1..Len(objects) :
                     /\ objects'[i].id = objects[i].id
                     /\ objects'[i].selected = objects[i].selected
                     /\ objects[i].selected => objects'[i] = objects[i]
              /\ \A i \in (Len(objects) + 1)..Len(objects') :
                     /\ ~objects'[i].selected
                     /\ objects'[i].id \notin Range(selected')]_vars
    /\ [](active # NoneId =>
              /\ active \notin Range(selected)
              /\ \A i \in 1..Len(objects) :
                     objects[i].id = active => ~objects[i].selected)

\* A pointer-move with the button held while a wire is being drawn and an
\* object is selected.
C20_Witness ==
    /\ ev.kind = "move" /\ ev.buttons /\ ev.mode = DRAW_WIRE
    /\ mode = DRAW_WIRE /\ active # NoneId /\ active = ev.active
    /\ Len(selected) >= 1
    /\ \E i \in 1..Len(objects) : objects[i].selected

====
